---- MODULE Spec2Model ----
(***************************************************************************)
(* Model of the brainstorming search controller: the Node tree entity      *)
(* (src/node.py), the MCTS controller (src/mcts.py) and the JSON           *)
(* persistence of the tree (src/utils.py).                                 *)
(*                                                                         *)
(* Scores are integers in hundredths (0.5 is 50, 0.87 is 87).  Node        *)
(* objects are identified by their id; the Python value None is modelled   *)
(* by 0 for references and ids, and by the string "None" for texts.        *)
(***************************************************************************)
EXTENDS Integers, Sequences, FiniteSets, TLC

VARIABLES
    nodes,      \* the objects of the tree: id -> Node (reachable from the root)
    nextId,     \* the next fresh identifier (uuid.uuid4 never repeats)
    pc,         \* position of the controller: idle, bootstrap, main, done, crashed
    i,          \* index of the next iteration of the running loop of run()
    file,       \* content of the snapshot file written last
    last,       \* what the last operation was handed and what it returned
    c_param     \* MCTS.c_param, in thousandths

vars == <<nodes, nextId, pc, i, file, last, c_param>>

---------------------------------------------------------------------------
(* Program constants *)

\* Node.MAX_CHILDREN, scaled down from the source's 5 to keep the tree small
MAX_CHILDREN == 2
MAX_DEPTH == 5
\* Node.QUALITY_THRESHOLD = 0.87, in hundredths
QUALITY_THRESHOLD == 87
\* DEFAULT_SCORE = 0.5 of _evaluate_idea and the 0.5 of _simulate, in hundredths
DEFAULT_SCORE == 50
\* max_retries of _generate_idea / _generate_idea_from_problem
GEN_MAX_RETRIES == 2
\* max_retries of _evaluate_idea
EVAL_MAX_RETRIES == 3
\* len(EVALUATION_CRITERIA)
NumCriteria == 4
\* MCTS.DEFAULT_C_PARAM = 1.414, in thousandths
DEFAULT_C_PARAM == 1414

(* Bounds of the model *)

\* size of the strategy catalog handed to MCTS(creative_directives=...)
NumDirectives == 3
\* MCTS(iterations=...)
Iterations == 1
\* the largest identifier handed out: the root and MaxId - 1 expansions
MaxId == 4

None == 0
RootId == 1
\* the TypeError that best_child(c_param=...) raises in _select
Raised == -1
\* the value False that the generator helpers return after their last retry
FalseContent == "False"
\* a snapshot file is <<>> until it is written, then <<tree_dict>>
NoFile == <<>>
\* the scores a complete evaluation can average to, in hundredths
EvalScores == {90}
Directives == 1..NumDirectives

---------------------------------------------------------------------------
(* src/node.py *)

\* Node.__init__ with self.depth = 0 whatever the parent
NewNodeAtDepthZero(tree, content, is_problem_statement, parent, directive, constraints, id) ==
    [ id |-> id,
      parent |-> parent,
      parent_id |-> IF parent # None THEN tree[parent].id ELSE None,
      content |-> content,
      constraints |-> constraints,
      is_problem_statement |-> is_problem_statement,
      directive |-> directive,
      depth |-> 0,
      child_number |-> IF parent # None THEN Len(tree[parent].children) + 1 ELSE 0,
      visits |-> 0,
      score |-> 0,
      children |-> <<>> ]

\* Node.__init__ numbering the children of a node from 0
NewNodeNumberedFromZero(tree, content, is_problem_statement, parent, directive, constraints, id) ==
    [ id |-> id,
      parent |-> parent,
      parent_id |-> IF parent # None THEN tree[parent].id ELSE None,
      content |-> content,
      constraints |-> constraints,
      is_problem_statement |-> is_problem_statement,
      directive |-> directive,
      depth |-> IF parent = None THEN 0 ELSE tree[parent].depth + 1,
      child_number |-> IF parent # None THEN Len(tree[parent].children) ELSE 0,
      visits |-> 0,
      score |-> 0,
      children |-> <<>> ]

\* Node.__init__: the object constructed for a child of `parent` in `tree`
NewNode(tree, content, is_problem_statement, parent, directive, constraints, id) ==
    [ id |-> id,
      parent |-> parent,
      parent_id |-> IF parent # None THEN tree[parent].id ELSE None,
      content |-> content,
      constraints |-> constraints,
      is_problem_statement |-> is_problem_statement,
      directive |-> directive,
      depth |-> IF parent = None THEN 0 ELSE tree[parent].depth + 1,
      child_number |-> IF parent # None THEN Len(tree[parent].children) + 1 ELSE 0,
      visits |-> 0,
      score |-> 0,
      children |-> <<>> ]

\* Node.is_terminal returning False for every node
IsTerminalNever(n) == FALSE

\* Node.is_terminal without the test of the average score
IsTerminalDepthOnly(n) == n.depth >= MAX_DEPTH

\* Node.is_terminal
IsTerminal(n) ==
    IF n.depth >= MAX_DEPTH THEN TRUE
    ELSE IF n.visits = 0 THEN FALSE
    ELSE n.score >= QUALITY_THRESHOLD * n.visits

\* Node.fully_expanded
FullyExpanded(n) == Len(n.children) >= MAX_CHILDREN

\* the objects in self.children
ChildrenOf(tree, n) == { tree[n].children[k] : k \in 1..Len(tree[n].children) }

\* Node.C_PARAM = 1.414, in thousandths
C_PARAM == 1414
\* float("-inf") of line 94: below every score (scores are never negative)
NegInf == -1

\* math.log(v) in millionths, for v = 1..11
LnMicro == << 0, 693147, 1098612, 1386294, 1609437, 1791759, 1945910,
              2079441, 2197224, 2302585, 2397895 >>

\* x ** 0.5, rounded down: the root is searched between lo and hi
RECURSIVE SqrtBetween(_, _, _)
SqrtBetween(x, lo, hi) ==
    IF lo >= hi THEN lo
    ELSE LET mid == (lo + hi + 1) \div 2
         IN  IF mid * mid <= x THEN SqrtBetween(x, mid, hi)
             ELSE SqrtBetween(x, lo, mid - 1)

Sqrt(x) == SqrtBetween(x, 0, 4096)

\* best_child, lines 141-142: the weight of a visited child, in millionths:
\* (child.score / child.visits)
\*     + C_PARAM * ((2 * math.log(self.visits) / child.visits) ** 0.5)
Ucb1(parent, child) ==
    (child.score * 10000) \div child.visits
        + C_PARAM * Sqrt((2 * LnMicro[parent.visits]) \div child.visits)

\* the loop of lines 94-103 comparing averages (score / visits, in
\* hundredths) where the source compares raw scores
RECURSIVE BootstrapScanByAverage(_, _, _, _, _)
BootstrapScanByAverage(tree, n, k, best_score, best_children) ==
    IF k > Len(tree[n].children) THEN best_children
    ELSE LET child == tree[tree[n].children[k]]
             average == IF child.visits = 0 THEN 0
                        ELSE child.score \div child.visits
         IN  IF child.visits = 0
             THEN BootstrapScanByAverage(tree, n, k + 1, best_score, best_children)
             ELSE IF average > best_score
             THEN BootstrapScanByAverage(tree, n, k + 1, average, {child.id})
             ELSE IF average = best_score
             THEN BootstrapScanByAverage(tree, n, k + 1, best_score,
                                         best_children \cup {child.id})
             ELSE BootstrapScanByAverage(tree, n, k + 1, best_score,
                                         best_children)

\* best_child, lines 94-103: the loop over the children from the k-th on,
\* with the best raw score seen and the children that have it
RECURSIVE BootstrapScan(_, _, _, _, _)
BootstrapScan(tree, n, k, best_score, best_children) ==
    IF k > Len(tree[n].children) THEN best_children
    ELSE LET child == tree[tree[n].children[k]]
         IN  IF child.visits = 0
             THEN BootstrapScan(tree, n, k + 1, best_score, best_children)
             ELSE IF child.score > best_score
             THEN BootstrapScan(tree, n, k + 1, child.score, {child.id})
             ELSE IF child.score = best_score
             THEN BootstrapScan(tree, n, k + 1, best_score,
                                best_children \cup {child.id})
             ELSE BootstrapScan(tree, n, k + 1, best_score, best_children)

\* best_child, lines 92-108: what random.choice can return when
\* self.visits == 0
BootstrapChoice(tree, n) ==
    LET best_children == BootstrapScan(tree, n, 1, NegInf, {})
    IN  IF best_children # {} THEN best_children ELSE ChildrenOf(tree, n)

\* best_child, lines 140-145: the weights of the visited children, in the
\* order of self.children
ChoicesWeights(tree, n) ==
    LET visited == SelectSeq(tree[n].children, LAMBDA c : tree[c].visits > 0)
    IN  [ k \in 1..Len(visited) |-> Ucb1(tree[n], tree[visited[k]]) ]

\* choices_weights.index(max(choices_weights)), as a 1-based position
IndexOfMax(weights) ==
    CHOOSE k \in 1..Len(weights) :
        /\ \A j \in 1..Len(weights) : weights[j] <= weights[k]
        /\ \A j \in 1..(k - 1) : weights[j] < weights[k]

\* best_child, lines 140-150: the position found in choices_weights is
\* used as a position in self.children
Ucb1Choice(tree, n) ==
    LET choices_weights == ChoicesWeights(tree, n)
    IN  IF choices_weights = <<>> THEN ChildrenOf(tree, n)
        ELSE { tree[n].children[IndexOfMax(choices_weights)] }

\* Node.best_child: the children it can return
BestChild(tree, n) ==
    IF tree[n].children = <<>> THEN {None}
    ELSE IF tree[n].visits = 0 THEN BootstrapChoice(tree, n)
    ELSE Ucb1Choice(tree, n)

\* del self.children[0] where the source deletes the i-th child
RemoveFirst(seq, k) == Tail(seq)

\* del self.children[i]
RemoveAt(seq, k) ==
    [ j \in 1..(Len(seq) - 1) |-> IF j < k THEN seq[j] ELSE seq[j + 1] ]

\* _prune_child ending with return True where the source returns False
RECURSIVE PruneChildReturnsTrue(_, _, _, _)
PruneChildReturnsTrue(tree, n, id, k) ==
    IF k > Len(tree[n].children) THEN [ok |-> TRUE, tree |-> tree]
    ELSE LET child == tree[n].children[k]
         IN  IF tree[child].id = id
             THEN [ok |-> TRUE,
                   tree |-> [tree EXCEPT ![n].children = RemoveAt(@, k)]]
             ELSE LET below == PruneChildReturnsTrue(tree, child, id, 1)
                  IN  IF below.ok THEN below
                      ELSE PruneChildReturnsTrue(tree, n, id, k + 1)

\* Node._prune_child, the loop from its k-th round on: the value returned
\* and the tree it leaves
RECURSIVE PruneChild(_, _, _, _)
PruneChild(tree, n, id, k) ==
    IF k > Len(tree[n].children) THEN [ok |-> FALSE, tree |-> tree]
    ELSE LET child == tree[n].children[k]
         IN  IF tree[child].id = id
             THEN [ok |-> TRUE,
                   tree |-> [tree EXCEPT ![n].children = RemoveAt(@, k)]]
             ELSE LET below == PruneChild(tree, child, id, 1)
                  IN  IF below.ok THEN below
                      ELSE PruneChild(tree, n, id, k + 1)

\* Node.prune_node_by_id
PruneNodeById(tree, root, id) ==
    IF tree[root].id = id THEN [ok |-> FALSE, tree |-> tree]
    ELSE PruneChild(tree, root, id, 1)

\* the objects still referenced from n: a detached subtree is garbage
RECURSIVE Reachable(_, _)
Reachable(tree, n) ==
    {n} \cup UNION { Reachable(tree, tree[n].children[k]) :
                        k \in 1..Len(tree[n].children) }

Collect(tree, root) == [ m \in Reachable(tree, root) |-> tree[m] ]

---------------------------------------------------------------------------
(* src/mcts.py *)

\* _expand without step 2: every directive of the catalog is available
AllDirectives(tree, n) == Directives

\* _expand, steps 1 and 2: the directives no child of the node uses
AvailableDirectives(tree, n) ==
    Directives \ { tree[c].directive : c \in ChildrenOf(tree, n) }

\* _expand raising where the source returns None
NoDirectiveRaises == Raised

\* _expand, lines 226-229: what it returns when no directive is available
NoDirectiveReturn == None

\* what a call of _get_completion by a generator helper does: it returns a
\* text or raises
Completions == {"text", "raise"}

\* the retry loop giving up after the first completion that raised
GenerateOnce(completions, attempt) ==
    IF completions[attempt + 1] = "text"
    THEN [calls |-> attempt + 1, idea |-> "idea"]
    ELSE [calls |-> attempt + 1, idea |-> FalseContent]

\* _generate_idea and _generate_idea_from_problem, the loop from round
\* `attempt` (counted from 0) on: completions[k] is what the k-th call of
\* _get_completion does
RECURSIVE GenerateFrom(_, _)
GenerateFrom(completions, attempt) ==
    IF attempt >= GEN_MAX_RETRIES
    THEN [calls |-> attempt, idea |-> FalseContent]
    ELSE IF completions[attempt + 1] = "text"
    THEN [calls |-> attempt + 1, idea |-> "idea"]
    ELSE IF attempt = GEN_MAX_RETRIES - 1
    THEN [calls |-> attempt + 1, idea |-> FalseContent]
    ELSE GenerateFrom(completions, attempt + 1)

\* _generate_idea and _generate_idea_from_problem: the text of the first
\* completion that does not raise, or False after the last failed attempt
GenerateIdea ==
    { GenerateFrom(completions, 0) :
        completions \in [1..GEN_MAX_RETRIES -> Completions] }

\* what an attempt of _evaluate_idea meets: a response with a score for
\* every criterion, a response that lacks one, or a completion that raises
Evaluations == {"complete", "incomplete", "raise"}

RECURSIVE SumSeq(_)
SumSeq(seq) == IF seq = <<>> THEN 0 ELSE Head(seq) + SumSeq(Tail(seq))

\* _evaluate_idea, lines 427-443: response[k] is the number written for
\* the k-th criterion; each is divided by 100 and the mean is taken, here
\* in hundredths
AverageScore(response) == SumSeq(response) \div Len(response)

\* _evaluate_idea, the loop from round k (counted from 0) on
RECURSIVE EvaluateFrom(_, _, _)
EvaluateFrom(attempts, response, k) ==
    IF k >= EVAL_MAX_RETRIES
    THEN [calls |-> k, score |-> DEFAULT_SCORE, failed |-> TRUE]
    ELSE IF attempts[k + 1] = "complete"
    THEN [calls |-> k + 1, score |-> AverageScore(response), failed |-> FALSE]
    ELSE EvaluateFrom(attempts, response, k + 1)

\* the complete responses of the runs: every criterion is given 90
RunResponses == { [ k \in 1..NumCriteria |-> s ] : s \in EvalScores }

\* _evaluate_idea with return 0 where the source returns DEFAULT_SCORE
EvaluateIdeaDefaultZero ==
    { [calls |-> k, score |-> s, failed |-> FALSE] :
        k \in 1..EVAL_MAX_RETRIES, s \in EvalScores }
        \cup { [calls |-> EVAL_MAX_RETRIES, score |-> 0, failed |-> TRUE] }

\* _evaluate_idea: the mean of the criterion scores of the first complete
\* response, or DEFAULT_SCORE when no attempt gave one
EvaluateIdea ==
    { EvaluateFrom(attempts, response, 0) :
        attempts \in [1..EVAL_MAX_RETRIES -> Evaluations],
        response \in RunResponses }

\* _simulate
Simulate(n) ==
    IF n.is_problem_statement
    THEN { [calls |-> 0, score |-> DEFAULT_SCORE, failed |-> FALSE] }
    ELSE EvaluateIdea

\* _expand with node.children.insert(0, child) where the source appends
ExpandTreePrepend(tree, n, directive, new_idea, id) ==
    LET child == NewNode(tree, new_idea, FALSE, n, directive, "None", id)
    IN  [ m \in DOMAIN tree \cup {id} |->
            IF m = id THEN child
            ELSE IF m = n THEN [tree[n] EXCEPT !.children = <<id>> \o @]
            ELSE tree[m] ]

\* _expand constructing the child with is_problem_statement=True
ExpandTreeAsProblem(tree, n, directive, new_idea, id) ==
    LET child == NewNode(tree, new_idea, TRUE, n, directive, "None", id)
    IN  [ m \in DOMAIN tree \cup {id} |->
            IF m = id THEN child
            ELSE IF m = n THEN [tree[n] EXCEPT !.children = Append(@, id)]
            ELSE tree[m] ]

\* _expand, lines 245-248: the child is constructed and appended
ExpandTree(tree, n, directive, new_idea, id) ==
    LET child == NewNode(tree, new_idea, FALSE, n, directive, "None", id)
    IN  [ m \in DOMAIN tree \cup {id} |->
            IF m = id THEN child
            ELSE IF m = n THEN [tree[n] EXCEPT !.children = Append(@, id)]
            ELSE tree[m] ]

\* _expand, lines 250-260: print(new_idea + "\n") raises TypeError when the
\* generator returned False; the handler returns None
ExpandReturn(new_idea, id) ==
    IF new_idea = FalseContent THEN None ELSE id

\* _backpropagate with the loop ended one node early (while node.parent is
\* not None): the root is never updated
RECURSIVE BackpropagateBelowRoot(_, _, _)
BackpropagateBelowRoot(tree, n, score) ==
    IF n = None \/ tree[n].parent = None THEN tree
    ELSE BackpropagateBelowRoot(
            [tree EXCEPT ![n].visits = @ + 1, ![n].score = @ + score],
            tree[n].parent, score)

\* _backpropagate without node.visits += 1
RECURSIVE BackpropagateScoreOnly(_, _, _)
BackpropagateScoreOnly(tree, n, score) ==
    IF n = None THEN tree
    ELSE BackpropagateScoreOnly([tree EXCEPT ![n].score = @ + score],
                                tree[n].parent, score)

\* _backpropagate
RECURSIVE Backpropagate(_, _, _)
Backpropagate(tree, n, score) ==
    IF n = None THEN tree
    ELSE Backpropagate(
            [tree EXCEPT ![n].visits = @ + 1, ![n].score = @ + score],
            tree[n].parent, score)

\* _select, line 193: node.best_child(c_param=c) passes a keyword that
\* Node.best_child(self) does not take: TypeError, whatever the value
BestChildWithCParam(tree, n, c) == {Raised}

\* _select: the nodes it can return, or Raised
SelectOutcomes(tree, n) ==
    IF IsTerminal(tree[n]) THEN {n}
    ELSE IF ~FullyExpanded(tree[n]) THEN {n}
    ELSE ChildrenOf(tree, n) \cup BestChildWithCParam(tree, n, c_param)

---------------------------------------------------------------------------
(* src/utils.py *)

\* save_tree_to_json.node_to_dict with Node.to_dict
RECURSIVE NodeToDict(_, _)
NodeToDict(tree, n) ==
    [ id |-> tree[n].id,
      parent_id |-> tree[n].parent_id,
      content |-> tree[n].content,
      is_problem_statement |-> tree[n].is_problem_statement,
      constraints |-> tree[n].constraints,
      directive |-> tree[n].directive,
      visits |-> tree[n].visits,
      score |-> tree[n].score,
      depth |-> tree[n].depth,
      child_number |-> tree[n].child_number,
      children |-> [ k \in 1..Len(tree[n].children) |->
                        NodeToDict(tree, tree[n].children[k]) ] ]

\* load_tree_from_json.dict_to_node: the objects built so far are `tree`
RECURSIVE DictToNode(_, _, _), DictToChildren(_, _, _, _)

\* dict_to_node constructing every node without its parent
DictToNodeOrphan(tree, node_dict, parent) ==
    LET node == [ NewNode(tree, node_dict.content, node_dict.is_problem_statement,
                          None, node_dict.directive, node_dict.constraints,
                          node_dict.id)
                  EXCEPT !.depth = node_dict.depth,
                         !.visits = node_dict.visits,
                         !.score = node_dict.score ]
    IN  DictToChildren(tree @@ (node_dict.id :> node), node_dict.id,
                       node_dict.children, 1)

DictToNode(tree, node_dict, parent) ==
    LET node == [ NewNode(tree, node_dict.content, node_dict.is_problem_statement,
                          parent, node_dict.directive, node_dict.constraints,
                          node_dict.id)
                  EXCEPT !.depth = node_dict.depth,
                         !.visits = node_dict.visits,
                         !.score = node_dict.score ]
    IN  DictToChildren(tree @@ (node_dict.id :> node), node_dict.id,
                       node_dict.children, 1)

\* the loop of lines 58-60 from its k-th round on
DictToChildren(tree, n, dicts, k) ==
    IF k > Len(dicts) THEN tree
    ELSE LET built == DictToNode(tree, dicts[k], n)
         IN  DictToChildren(
                [built EXCEPT ![n].children = Append(@, dicts[k].id)],
                n, dicts, k + 1)

\* load_tree_from_json
LoadTree(tree_dict) == DictToNode(<<>>, tree_dict, None)

---------------------------------------------------------------------------
(* src/main.py *)

\* initialize_root_node
InitialTree ==
    RootId :> NewNode(<<>>, "problem", TRUE, None, None, "constraints", RootId)

\* key=lambda n: n.score / n.visits if n.visits > 0 else 0, compared without
\* dividing: the key of a is smaller than the key of b
KeyLess(a, b) ==
    LET as == IF a.visits > 0 THEN a.score ELSE 0
        av == IF a.visits > 0 THEN a.visits ELSE 1
        bs == IF b.visits > 0 THEN b.score ELSE 0
        bv == IF b.visits > 0 THEN b.visits ELSE 1
    IN  as * bv < bs * av

\* x put into a sequence sorted by decreasing key, behind the nodes whose
\* key is not smaller
RECURSIVE InsertByRatio(_, _, _)
InsertByRatio(tree, sorted, x) ==
    IF sorted = <<>> THEN <<x>>
    ELSE IF KeyLess(tree[Head(sorted)], tree[x])
    THEN <<x>> \o sorted
    ELSE <<Head(sorted)>> \o InsertByRatio(tree, Tail(sorted), x)

\* sorted(all_nodes, key=..., reverse=True) returning the list as it is
KeepOrder(tree, seq) == seq

\* sorted(all_nodes, key=..., reverse=True): stable, by decreasing key
RECURSIVE SortedByRatio(_, _)
SortedByRatio(tree, seq) ==
    IF seq = <<>> THEN <<>>
    ELSE InsertByRatio(tree,
                       SortedByRatio(tree, SubSeq(seq, 1, Len(seq) - 1)),
                       seq[Len(seq)])

\* seq[:n] for n >= 0
FirstN(seq, n) == SubSeq(seq, 1, IF n < Len(seq) THEN n ELSE Len(seq))

\* get_best_ideas; GatherIdeas is its loop over node.children from the k-th
\* child on
RECURSIVE GetBestIdeas(_, _, _), GatherIdeas(_, _, _, _)
GetBestIdeas(tree, node, n) ==
    LET all_nodes == <<node>> \o GatherIdeas(tree, node, n, 1)
        ideas == SelectSeq(all_nodes, LAMBDA m : ~tree[m].is_problem_statement)
    IN  FirstN(SortedByRatio(tree, ideas), n)

GatherIdeas(tree, node, n, k) ==
    IF k > Len(tree[node].children) THEN <<>>
    ELSE GetBestIdeas(tree, tree[node].children[k], n)
            \o GatherIdeas(tree, node, n, k + 1)

Last0 ==
    [ op |-> "init", sel |-> None, picked |-> None, node |-> None,
      n |-> 0, ideas |-> <<>>, env |-> <<>>, calls |-> 0, idea |-> "None",
      cont |-> FALSE, run |-> FALSE,
      full |-> FALSE,
      gen |-> "none", eval |-> "none",
      child |-> None, ret |-> None, ok |-> FALSE, score |-> 0 ]

\* main.py, lines 145-179: will_run_mcts when the program reaches
\* `if will_run_mcts:`. It starts False and is set only in the branch
\* `if root_node is None:`, which a loaded tree does not take; the
\* "continue" argument sets will_run_generation, which nothing reads
WillRunMcts(has_file, continue_arg) == ~has_file

Init ==
    /\ nodes = InitialTree
    /\ nextId = RootId + 1
    /\ pc = "idle"
    /\ i = 0
    /\ file = NoFile
    /\ last = [Last0 EXCEPT !.run = WillRunMcts(FALSE, FALSE)]
    /\ c_param = DEFAULT_C_PARAM

---------------------------------------------------------------------------
(* MCTS.run *)

\* run entering the bootstrap loop whatever children the root has
StartRunAlwaysBootstrap ==
    /\ pc \in {"idle", "done"}
    /\ i' = 0
    /\ pc' = "bootstrap"
    /\ last' = [Last0 EXCEPT !.op = "start"]
    /\ UNCHANGED <<nodes, nextId, file, c_param>>

\* run, lines 72-82: the file name of this run is chosen, and the bootstrap
\* loop is entered only when the root has no children
StartRun ==
    /\ pc \in {"idle", "done"}
    /\ i' = 0
    /\ pc' = IF nodes[RootId].children = <<>> THEN "bootstrap"
             ELSE IF Iterations = 0 THEN "done" ELSE "main"
    /\ last' = [Last0 EXCEPT !.op = "start"]
    /\ UNCHANGED <<nodes, nextId, file, c_param>>

\* the body both loops of run share: _expand(n) and, when it returned a
\* node, _simulate, _backpropagate and save_tree_to_json
Attempt(n, base) ==
    LET at == [base EXCEPT !.node = n, !.full = FullyExpanded(nodes[n])]
    IN  IF AvailableDirectives(nodes, n) = {}
        THEN /\ last' = [at EXCEPT !.ret = NoDirectiveReturn]
             /\ UNCHANGED <<nodes, nextId, file>>
        ELSE \E directive \in AvailableDirectives(nodes, n), g \in GenerateIdea :
                LET expanded == ExpandTree(nodes, n, directive, g.idea, nextId)
                    ret == ExpandReturn(g.idea, nextId)
                    made == [at EXCEPT !.gen = IF g.idea = FalseContent
                                               THEN "failed" ELSE "ok",
                                       !.child = nextId, !.ret = ret]
                IN  /\ nextId <= MaxId
                    /\ nextId' = nextId + 1
                    /\ IF ret = None
                       THEN /\ nodes' = expanded
                            /\ last' = made
                            /\ UNCHANGED file
                       ELSE \E e \in Simulate(expanded[ret]) :
                              LET after == Backpropagate(expanded, ret, e.score)
                              IN  /\ nodes' = after
                                  /\ file' = <<NodeToDict(after, RootId)>>
                                  /\ last' = [made EXCEPT
                                        !.score = e.score,
                                        !.eval = IF e.failed THEN "failed"
                                                 ELSE IF e.calls = 0 THEN "none"
                                                 ELSE "ok"]

\* run, lines 83-101: one round of the bootstrap loop
BootstrapIter ==
    /\ pc = "bootstrap"
    /\ i < MAX_CHILDREN
    /\ Attempt(RootId, [Last0 EXCEPT !.op = "bootstrap"])
    /\ i' = IF i + 1 < MAX_CHILDREN THEN i + 1 ELSE 0
    /\ pc' = IF i + 1 < MAX_CHILDREN THEN "bootstrap"
             ELSE IF Iterations = 0 THEN "done" ELSE "main"
    /\ UNCHANGED c_param

\* run, lines 104-160: one round of the main loop
MainIter ==
    /\ pc = "main"
    /\ i < Iterations
    /\ \E sel \in SelectOutcomes(nodes, RootId) :
          IF sel = Raised
          THEN /\ pc' = "crashed"
               /\ last' = [Last0 EXCEPT !.op = "main", !.sel = Raised]
               /\ UNCHANGED <<nodes, nextId, file, i>>
          ELSE \E forced \in BOOLEAN :
                LET node == IF forced THEN RootId ELSE sel
                    base == [Last0 EXCEPT !.op = "main", !.sel = sel,
                                          !.picked = node]
                IN  /\ IF IsTerminal(nodes[node])
                       THEN /\ last' = base
                            /\ UNCHANGED <<nodes, nextId, file>>
                       ELSE Attempt(node, base)
                    /\ i' = i + 1
                    /\ pc' = IF i + 1 < Iterations THEN "main" ELSE "done"
    /\ UNCHANGED c_param

\* MCTS._prune_node_by_id, between runs
Prune ==
    /\ pc \in {"idle", "done"}
    /\ \E id \in DOMAIN nodes \cup {nextId} :
          LET r == PruneNodeById(nodes, RootId, id)
          IN  /\ nodes' = Collect(r.tree, RootId)
              /\ last' = [Last0 EXCEPT !.op = "prune", !.ok = r.ok]
    /\ UNCHANGED <<nextId, pc, i, file, c_param>>

\* main.py, lines 148-156: a new process started with the snapshot file,
\* with or without the "continue" argument; last.run tells whether
\* __main__ then constructs the controller and calls run()
Load ==
    /\ pc \in {"idle", "done", "crashed"}
    /\ file # NoFile
    /\ nodes' = LoadTree(file[1])
    /\ \E continue_arg \in BOOLEAN :
          last' = [Last0 EXCEPT !.op = "load", !.cont = continue_arg,
                                !.run = WillRunMcts(TRUE, continue_arg)]
    /\ pc' = "idle"
    /\ i' = 0
    /\ UNCHANGED <<nextId, file, c_param>>

Next ==
    \/ StartRun
    \/ BootstrapIter
    \/ MainIter
    \/ Prune
    \/ Load

Spec == Init /\ [][Next]_vars

---------------------------------------------------------------------------
(* Node.best_child on its own: a node with up to MaxBCChildren children *)

MaxBCChildren == 3
\* self.visits of the node best_child is called on
ParentVisits == {0, 1, 3, 10}
\* <<visits, score>> of a child
ChildStats == { <<0, 0>>, <<1, 20>>, <<1, 50>>, <<1, 90>>, <<2, 100>>, <<4, 320>> }

\* a node with the given visits whose k-th child has the statistics stats[k]
FamilyTree(visits, stats) ==
    LET root == [InitialTree[RootId] EXCEPT
                    !.visits = visits, !.score = DEFAULT_SCORE * visits,
                    !.children = [ k \in 1..Len(stats) |-> RootId + k ]]
        Child(k) == [ NewNode(InitialTree, "idea", FALSE, RootId, k, "None",
                              RootId + k)
                      EXCEPT !.child_number = k,
                             !.visits = stats[k][1], !.score = stats[k][2] ]
    IN  [ m \in RootId..(RootId + Len(stats)) |->
            IF m = RootId THEN root ELSE Child(m - RootId) ]

InitBestChild ==
    /\ \E visits \in ParentVisits, len \in 1..MaxBCChildren :
          \E stats \in [1..len -> ChildStats] :
              nodes = FamilyTree(visits, stats)
    /\ nextId = RootId + Len(nodes[RootId].children) + 1
    /\ pc = "idle"
    /\ i = 0
    /\ file = NoFile
    /\ last = Last0
    /\ c_param = DEFAULT_C_PARAM

CallBestChild ==
    /\ last.op = "init"
    /\ \E ret \in BestChild(nodes, RootId) :
          last' = [Last0 EXCEPT !.op = "best_child", !.ret = ret]
    /\ UNCHANGED <<nodes, nextId, pc, i, file, c_param>>

NextBestChild == CallBestChild

SpecBestChild == InitBestChild /\ [][NextBestChild]_vars

---------------------------------------------------------------------------
(* Node.is_terminal on its own: the last node of a chain under the root *)

\* <<visits, score>> of the node is_terminal is called on
TerminalStats ==
    { <<0, 0>>, <<1, 50>>, <<1, 86>>, <<1, 87>>, <<1, 90>>, <<2, 100>>,
      <<2, 174>>, <<2, 180>>, <<3, 240>>, <<3, 270>>, <<4, 320>> }

\* the root and one idea per level down to `depth`; the deepest node has the
\* statistics `stat`, and each node above it one visit of DEFAULT_SCORE more
\* than the node below
ChainTree(depth, stat) ==
    [ m \in RootId..(RootId + depth) |->
        LET d == m - RootId
        IN  [ NewNode(<<>>, IF d = 0 THEN "problem" ELSE "idea", d = 0, None,
                      IF d = 0 THEN None ELSE 1,
                      IF d = 0 THEN "constraints" ELSE "None", m)
              EXCEPT !.parent = IF d = 0 THEN None ELSE m - 1,
                     !.parent_id = IF d = 0 THEN None ELSE m - 1,
                     !.depth = d,
                     !.child_number = IF d = 0 THEN 0 ELSE 1,
                     !.visits = stat[1] + (depth - d),
                     !.score = stat[2] + DEFAULT_SCORE * (depth - d),
                     !.children = IF d < depth THEN <<m + 1>> ELSE <<>> ] ]

InitIsTerminal ==
    /\ \E depth \in 0..MAX_DEPTH, stat \in TerminalStats :
          /\ nodes = ChainTree(depth, stat)
          /\ nextId = RootId + depth + 1
    /\ pc = "idle"
    /\ i = 0
    /\ file = NoFile
    /\ last = Last0
    /\ c_param = DEFAULT_C_PARAM

CallIsTerminal ==
    /\ last.op = "init"
    /\ last' = [Last0 EXCEPT !.op = "is_terminal", !.node = nextId - 1,
                             !.ok = IsTerminal(nodes[nextId - 1])]
    /\ UNCHANGED <<nodes, nextId, pc, i, file, c_param>>

NextIsTerminal == CallIsTerminal

SpecIsTerminal == InitIsTerminal /\ [][NextIsTerminal]_vars

---------------------------------------------------------------------------
(* MCTS._select on its own: a visited root with up to MaxBCChildren ideas *)

\* MCTS(c_param=...), in thousandths
CParams == {DEFAULT_C_PARAM, 2000}

\* the tree after `grand` expansions of its first idea, each simulated with
\* DEFAULT_SCORE and backpropagated to the idea and the root
WithGrandchildren(tree, grand) ==
    LET first == RootId + 1
        size == Len(tree[RootId].children) + 1
        Bump(node) == [node EXCEPT !.visits = @ + grand,
                                   !.score = @ + grand * DEFAULT_SCORE]
        Grandchild(k) == [ NewNode(tree, "idea", FALSE, first, k, "None",
                                   size + k)
                           EXCEPT !.child_number = k,
                                  !.visits = 1, !.score = DEFAULT_SCORE ]
    IN  [ m \in 1..(size + grand) |->
            IF m = RootId THEN Bump(tree[m])
            ELSE IF m = first
            THEN [Bump(tree[m]) EXCEPT
                    !.children = [ k \in 1..grand |-> size + k ]]
            ELSE IF m <= size THEN tree[m]
            ELSE Grandchild(m - size) ]

InitSelect ==
    /\ \E visits \in ParentVisits \ {0}, len \in 1..MaxBCChildren,
          grand \in 0..MAX_CHILDREN :
          \E stats \in [1..len -> ChildStats] :
              nodes = WithGrandchildren(FamilyTree(visits, stats), grand)
    /\ nextId = Cardinality(DOMAIN nodes) + 1
    /\ pc = "idle"
    /\ i = 0
    /\ file = NoFile
    /\ last = Last0
    /\ c_param \in CParams

CallSelect ==
    /\ last.op = "init"
    /\ \E sel \in SelectOutcomes(nodes, RootId) :
          last' = [Last0 EXCEPT !.op = "select", !.sel = sel]
    /\ UNCHANGED <<nodes, nextId, pc, i, file, c_param>>

NextSelect == CallSelect

SpecSelect == InitSelect /\ [][NextSelect]_vars

---------------------------------------------------------------------------
(* get_best_ideas on its own: trees of up to MaxTreeNodes nodes *)

MaxTreeNodes == 5
\* what creating a node added to it: nothing when the generator failed, one
\* visit and the score of its simulation otherwise, as <<visits, score>>
OwnStats == { <<0, 0>>, <<1, 50>>, <<1, 80>> }

\* the parent of each node: nodes are numbered in the order of creation
Parents(size) ==
    { par \in [1..size -> 0..size] :
        /\ par[RootId] = None
        /\ \A k \in 2..size : par[k] >= RootId /\ par[k] < k
        /\ \A m \in 1..size :
              Cardinality({ k \in 2..size : par[k] = m }) <= NumDirectives }

Owns(size) ==
    { own \in [1..size -> OwnStats] : own[RootId] = <<0, 0>> }

RECURSIVE DepthIn(_, _)
DepthIn(par, m) == IF m = RootId THEN 0 ELSE DepthIn(par, par[m]) + 1

\* k is m or a descendant of m
RECURSIVE UnderIn(_, _, _)
UnderIn(par, m, k) == k = m \/ (k # RootId /\ UnderIn(par, m, par[k]))

\* what the backpropagations from the nodes of S added, j = 1 for visits
\* and j = 2 for score
RECURSIVE SumStats(_, _, _)
SumStats(own, S, j) ==
    IF S = {} THEN 0
    ELSE LET k == CHOOSE k \in S : TRUE
         IN  own[k][j] + SumStats(own, S \ {k}, j)

\* the tree with these parents after each node was expanded and, where its
\* generation succeeded, simulated and backpropagated
ShapeTree(size, par, own) ==
    [ m \in 1..size |->
        LET number == Cardinality({ k \in 2..m : par[k] = par[m] })
            content == IF m = RootId THEN "problem"
                       ELSE IF own[m][1] = 0 THEN FalseContent ELSE "idea"
        IN  [ NewNode(<<>>, content, m = RootId, None,
                      IF m = RootId THEN None ELSE number,
                      IF m = RootId THEN "constraints" ELSE "None", m)
              EXCEPT !.parent = par[m],
                     !.parent_id = par[m],
                     !.depth = DepthIn(par, m),
                     !.child_number = IF m = RootId THEN 0 ELSE number,
                     !.visits = SumStats(own, { k \in 1..size : UnderIn(par, m, k) }, 1),
                     !.score = SumStats(own, { k \in 1..size : UnderIn(par, m, k) }, 2),
                     !.children = SelectSeq([ k \in 1..size |-> k ],
                                            LAMBDA k : k # RootId /\ par[k] = m) ] ]

InitBestIdeas ==
    /\ \E size \in 1..MaxTreeNodes :
          /\ \E par \in Parents(size), own \in Owns(size) :
                nodes = ShapeTree(size, par, own)
          /\ nextId = size + 1
    /\ pc = "idle"
    /\ i = 0
    /\ file = NoFile
    /\ last = Last0
    /\ c_param = DEFAULT_C_PARAM

CallGetBestIdeas ==
    /\ last.op = "init"
    /\ \E n \in 0..MaxTreeNodes :
          last' = [Last0 EXCEPT !.op = "best_ideas", !.n = n,
                                !.ideas = GetBestIdeas(nodes, RootId, n)]
    /\ UNCHANGED <<nodes, nextId, pc, i, file, c_param>>

NextBestIdeas == CallGetBestIdeas

SpecBestIdeas == InitBestIdeas /\ [][NextBestIdeas]_vars

---------------------------------------------------------------------------
(* The generator and evaluator helpers on their own *)

\* the numbers an evaluation response can give a criterion
RawScores == {20, 100, 140}
Responses == [1..NumCriteria -> RawScores]

InitCollaborators ==
    /\ nodes = InitialTree
    /\ nextId = RootId + 1
    /\ pc = "idle"
    /\ i = 0
    /\ file = NoFile
    /\ \E completions \in [1..GEN_MAX_RETRIES -> Completions],
          attempts \in [1..EVAL_MAX_RETRIES -> Evaluations],
          response \in Responses :
          last = [Last0 EXCEPT !.env = [completions |-> completions,
                                        attempts |-> attempts,
                                        response |-> response]]
    /\ c_param = DEFAULT_C_PARAM

CallGenerate ==
    /\ last.op = "init"
    /\ LET g == GenerateFrom(last.env.completions, 0)
       IN  last' = [last EXCEPT !.op = "generate", !.calls = g.calls,
                                !.idea = g.idea,
                                !.gen = IF g.idea = FalseContent
                                        THEN "failed" ELSE "ok"]
    /\ UNCHANGED <<nodes, nextId, pc, i, file, c_param>>

CallEvaluate ==
    /\ last.op = "init"
    /\ LET e == EvaluateFrom(last.env.attempts, last.env.response, 0)
       IN  last' = [last EXCEPT !.op = "evaluate", !.calls = e.calls,
                                !.score = e.score,
                                !.eval = IF e.failed THEN "failed" ELSE "ok"]
    /\ UNCHANGED <<nodes, nextId, pc, i, file, c_param>>

NextCollaborators == CallGenerate \/ CallEvaluate

SpecCollaborators == InitCollaborators /\ [][NextCollaborators]_vars

---------------------------------------------------------------------------
(* Properties *)

Ids == DOMAIN nodes
Root == nodes[RootId]
VisitedChildren(tree, n) == { c \in ChildrenOf(tree, n) : tree[c].visits > 0 }
\* m is n or an ancestor of n: n lies in the subtree owned by m
AncestorOrSelf(tree, m, n) == n \in Reachable(tree, m)
\* the position of child c in the children of n
PositionOf(tree, n, c) == CHOOSE k \in 1..Len(tree[n].children) : tree[n].children[k] = c
IsIteration(op) == op \in {"bootstrap", "main"}

\* C1: no node ever has more than MAX_CHILDREN children, and the node the
\* controller hands to _expand is never fully expanded.
C1_Original ==
    /\ \A n \in Ids : Len(nodes[n].children) <= MAX_CHILDREN
    /\ last.node # None => ~last.full

\* C2: an expansion whose generator failed on every attempt returns None
\* and leaves the whole tree as it was.
C2_Original ==
    [][last'.gen = "failed" => (last'.ret = None /\ nodes' = nodes)]_vars

\* C3: backpropagating score s from node n adds 1 to visits and s to score
\* on n and on each of its ancestors up to the root, and changes nothing
\* else, for every node n of every reachable tree.
C3_BackpropagateFrame ==
    \A n \in Ids : \A s \in EvalScores \cup {DEFAULT_SCORE} :
        LET after == Backpropagate(nodes, n, s)
        IN  /\ DOMAIN after = Ids
            /\ \A m \in Ids :
                  after[m] = IF AncestorOrSelf(nodes, m, n)
                             THEN [nodes[m] EXCEPT !.visits = @ + 1,
                                                   !.score = @ + s]
                             ELSE nodes[m]

\* an iteration of the main loop expanded a first-level node and
\* backpropagated from the new node through its parent to the root, while
\* the other first-level node kept its statistics
C3_Witness ==
    /\ last.op = "main"
    /\ last.ret # None
    /\ nodes[last.ret].depth = 2
    /\ nodes[last.ret].visits = 1
    /\ nodes[last.ret].score = last.score
    /\ nodes[nodes[last.ret].parent].visits = 2
    /\ Root.visits = 3
    /\ \E m \in ChildrenOf(nodes, RootId) :
          m # nodes[last.ret].parent /\ nodes[m].visits = 1

\* C4: best_child never returns an unvisited child when the node has
\* visits and a visited child, and with no visits it returns an unvisited
\* child only if no child is visited.
C4_Original ==
    last.op = "best_child" =>
        /\ (Root.visits > 0 /\ VisitedChildren(nodes, RootId) # {})
              => nodes[last.ret].visits > 0
        /\ (Root.visits = 0 /\ nodes[last.ret].visits = 0)
              => VisitedChildren(nodes, RootId) = {}

\* C5: with visits and a visited child, best_child returns the visited
\* child of largest UCB1 weight, the first in self.children among equals.
C5_Original ==
    (last.op = "best_child" /\ Root.visits > 0
        /\ VisitedChildren(nodes, RootId) # {}) =>
        /\ last.ret \in VisitedChildren(nodes, RootId)
        /\ \A c \in VisitedChildren(nodes, RootId) :
              \/ Ucb1(Root, nodes[c]) < Ucb1(Root, nodes[last.ret])
              \/ /\ Ucb1(Root, nodes[c]) = Ucb1(Root, nodes[last.ret])
                 /\ PositionOf(nodes, RootId, last.ret)
                        <= PositionOf(nodes, RootId, c)

\* C6: with no visits and a visited child, the children best_child can
\* return are exactly the visited children of largest raw score.
C6_BootstrapRawScore ==
    (Root.visits = 0 /\ VisitedChildren(nodes, RootId) # {}) =>
        LET best == { c \in VisitedChildren(nodes, RootId) :
                        \A d \in VisitedChildren(nodes, RootId) :
                            nodes[d].score <= nodes[c].score }
        IN  /\ BestChild(nodes, RootId) = best
            /\ last.op = "best_child" => last.ret \in best

\* children A, B, C with one visit each and scores 0.9, 0.5, 0.2 under an
\* unvisited node: A was returned
C6_Witness ==
    /\ last.op = "best_child"
    /\ Root.visits = 0
    /\ Len(Root.children) = 3
    /\ nodes[Root.children[1]].visits = 1 /\ nodes[Root.children[1]].score = 90
    /\ nodes[Root.children[2]].visits = 1 /\ nodes[Root.children[2]].score = 50
    /\ nodes[Root.children[3]].visits = 1 /\ nodes[Root.children[3]].score = 20
    /\ last.ret = Root.children[1]

\* C7: loading what was saved gives back the tree, every attribute of
\* every node included.
C7_Original == LoadTree(NodeToDict(nodes, RootId)) = nodes

\* C8: pruning by the root's id, or by an id no node has, returns False
\* and leaves the tree unchanged.
C8_PruneRejects ==
    \A id \in 0..(MaxId + 1) :
        (id = Root.id \/ id \notin Ids) =>
            PruneNodeById(nodes, RootId, id) = [ok |-> FALSE, tree |-> nodes]

\* a prune was refused on a tree that has nodes to lose
C8_Witness ==
    /\ last.op = "prune"
    /\ ~last.ok
    /\ Cardinality(Ids) >= 3

\* C9: pruning by the id of a node other than the root returns True and
\* removes that node and its descendants; every other node stays, with its
\* attributes, its owner and the order of its siblings.
C9_PruneRemovesSubtree ==
    \A id \in Ids \ {RootId} :
        LET r == PruneNodeById(nodes, RootId, id)
            after == Collect(r.tree, RootId)
            owner == CHOOSE p \in Ids : id \in ChildrenOf(nodes, p)
        IN  /\ r.ok
            /\ DOMAIN after = Ids \ Reachable(nodes, id)
            /\ \A m \in DOMAIN after :
                  after[m] = IF m = owner
                             THEN [nodes[m] EXCEPT !.children =
                                      SelectSeq(@, LAMBDA c : c # id)]
                             ELSE nodes[m]

\* a prune removed a visited node: the root keeps the visits it counted
\* for it, and a first-level node is still there
C9_Witness ==
    /\ last.op = "prune"
    /\ last.ok
    /\ Root.children # <<>>
    /\ \E c \in ChildrenOf(nodes, RootId) : nodes[c].visits > 0
    /\ Root.visits > Cardinality(Ids) - 1

\* C10: an iteration that changed the tree has written the whole tree to
\* the snapshot file when the next iteration starts.
C10_Original ==
    [][(IsIteration(last'.op) /\ nodes' # nodes)
          => file' = <<NodeToDict(nodes', RootId)>>]_vars

\* C11: when the evaluator gives no complete set of scores on any attempt,
\* the simulation is worth DEFAULT_SCORE and the iteration goes on: the new
\* node is in the tree with one visit and DEFAULT_SCORE, the node expanded
\* and each of its ancestors gained one visit and DEFAULT_SCORE, nothing
\* else changed, the snapshot is written and the run is still going.
C11_EvaluatorDefault ==
    [][last'.eval = "failed" =>
          /\ last'.score = DEFAULT_SCORE
          /\ last'.ret # None
          /\ DOMAIN nodes' = DOMAIN nodes \cup {last'.ret}
          /\ last'.ret \notin DOMAIN nodes
          /\ nodes'[last'.ret].parent = last'.node
          /\ nodes'[last'.ret].visits = 1
          /\ nodes'[last'.ret].score = DEFAULT_SCORE
          /\ \A m \in DOMAIN nodes :
                LET up == AncestorOrSelf(nodes, m, last'.node)
                IN  /\ nodes'[m].visits = nodes[m].visits + (IF up THEN 1 ELSE 0)
                    /\ nodes'[m].score =
                          nodes[m].score + (IF up THEN DEFAULT_SCORE ELSE 0)
          /\ file' = <<NodeToDict(nodes', RootId)>>
          /\ pc' \in {"bootstrap", "main", "done"}]_vars

\* the evaluation of a second-level idea failed on every attempt in an
\* iteration of the main loop, and the root counts three visits
C11_Witness ==
    /\ last.op = "main"
    /\ last.eval = "failed"
    /\ last.ret # None
    /\ nodes[last.ret].depth = 2
    /\ nodes[last.ret].score = DEFAULT_SCORE
    /\ Root.visits = 3

\* C12: an expansion at a node whose children use every directive of the
\* catalog returns None, calls no generator and no evaluator, leaves the
\* tree, the identifiers and the snapshot as they were, and the run goes on.
C12_NoDirectiveLeft ==
    [][(IsIteration(last'.op) /\ last'.node # None
          /\ { nodes[c].directive : c \in ChildrenOf(nodes, last'.node) }
                = 1..NumDirectives) =>
          /\ last'.ret = None
          /\ last'.gen = "none"
          /\ last'.eval = "none"
          /\ nodes' = nodes
          /\ nextId' = nextId
          /\ file' = file
          /\ pc' \in {"bootstrap", "main", "done"}]_vars

\* the main loop handed the root to _expand when its children used the
\* whole catalog
C12_Witness ==
    /\ last.op = "main"
    /\ last.node = RootId
    /\ Len(Root.children) = NumDirectives
    /\ { nodes[c].directive : c \in ChildrenOf(nodes, RootId) } = Directives
    /\ last.gen = "none"
    /\ last.ret = None

\* C13: no two children of a node have the same directive.
C13_SiblingDirectives ==
    \A n \in Ids :
        \A j, k \in 1..Len(nodes[n].children) :
            j # k => nodes[nodes[n].children[j]].directive
                        # nodes[nodes[n].children[k]].directive

\* an iteration of the main loop gave the root a third child, after the
\* two of the bootstrap loop
C13_Witness ==
    /\ last.op = "main"
    /\ last.node = RootId
    /\ last.ret # None
    /\ Len(Root.children) = MAX_CHILDREN + 1
    /\ Root.children[MAX_CHILDREN + 1] = last.ret

\* C14: the root has depth 0 and no parent, and every other node is one
\* level below its parent, which is the node that has it among its children.
C14_DepthOfParent ==
    /\ Root.depth = 0
    /\ Root.parent = None
    /\ \A n \in Ids \ {RootId} :
          /\ nodes[n].parent \in Ids
          /\ n \in ChildrenOf(nodes, nodes[n].parent)
          /\ nodes[n].depth = nodes[nodes[n].parent].depth + 1

\* a tree with a second-level node under a full root was loaded from the
\* snapshot file
C14_Witness ==
    /\ last.op = "load"
    /\ \E n \in Ids : nodes[n].depth = 2
    /\ file # NoFile
    /\ Len(file[1].children) = MAX_CHILDREN
    /\ Len(Root.children) = MAX_CHILDREN

\* C15: a node that was never visited has score 0.
C15_UnvisitedScoreZero ==
    \A n \in Ids : nodes[n].visits = 0 => nodes[n].score = 0

\* an unvisited node has a visited sibling, and the root has counted visits
\* and score
C15_Witness ==
    /\ Root.visits > 0
    /\ Root.score > 0
    /\ \E n, m \in ChildrenOf(nodes, RootId) :
          /\ nodes[n].visits = 0
          /\ nodes[m].visits > 0 /\ nodes[m].score > 0

\* C16: the root is the one node with is_problem_statement set, it has no
\* parent, and no prune, whatever the id, takes it out of the tree: a prune
\* by the root's id is refused and every other prune leaves the root the
\* flagged node.
C16_OneProblemStatement ==
    /\ { n \in Ids : nodes[n].is_problem_statement } = {RootId}
    /\ Root.parent = None
    /\ ~PruneNodeById(nodes, RootId, Root.id).ok
    /\ \A id \in Ids \cup {nextId} :
          LET after == Collect(PruneNodeById(nodes, RootId, id).tree, RootId)
          IN  { n \in DOMAIN after : after[n].is_problem_statement } = {RootId}

\* a prune took a node out of a tree that still has ideas under the root
C16_Witness ==
    /\ last.op = "prune"
    /\ last.ok
    /\ Cardinality(Ids) >= 2
    /\ \E n \in Ids : ~nodes[n].is_problem_statement

\* C17: is_terminal is true exactly when depth >= MAX_DEPTH, or visits > 0
\* and score / visits >= QUALITY_THRESHOLD: a node at MAX_DEPTH is terminal,
\* an unvisited node above MAX_DEPTH is not, and with 3 visits above
\* MAX_DEPTH a score of 2.7 is terminal and a score of 2.4 is not.
C17_IsTerminal ==
    last.op = "is_terminal" =>
        LET n == nodes[last.node]
        IN  /\ last.ok <=> (\/ n.depth >= MAX_DEPTH
                            \/ /\ n.visits > 0
                               /\ n.score >= QUALITY_THRESHOLD * n.visits)
            /\ n.depth = MAX_DEPTH => last.ok
            /\ (n.visits = 0 /\ n.depth < MAX_DEPTH) => ~last.ok
            /\ (n.visits = 3 /\ n.score = 270 /\ n.depth < MAX_DEPTH) => last.ok
            /\ (n.visits = 3 /\ n.score = 240 /\ n.depth < MAX_DEPTH) => ~last.ok

\* is_terminal returned True for a node above MAX_DEPTH with 3 visits and
\* score 2.7
C17_Witness ==
    /\ last.op = "is_terminal"
    /\ last.ok
    /\ nodes[last.node].depth = 2
    /\ nodes[last.node].visits = 3
    /\ nodes[last.node].score = 270

\* C18: an iteration of the main loop whose node (after the override by the
\* root) has depth MAX_DEPTH, or visits and an average score of at least
\* QUALITY_THRESHOLD, hands no node to _expand, calls no generator and no
\* evaluator, leaves the tree, the identifiers and the snapshot as they
\* were, and is counted.
C18_TerminalSkipped ==
    [][(last'.op = "main" /\ last'.picked # None
          /\ \/ nodes[last'.picked].depth >= MAX_DEPTH
             \/ /\ nodes[last'.picked].visits > 0
                /\ nodes[last'.picked].score
                      >= QUALITY_THRESHOLD * nodes[last'.picked].visits) =>
          /\ last'.node = None
          /\ last'.gen = "none"
          /\ last'.eval = "none"
          /\ nodes' = nodes
          /\ nextId' = nextId
          /\ file' = file
          /\ i' = i + 1
          /\ pc' = IF i + 1 < Iterations THEN "main" ELSE "done"]_vars

\* _select returned a first-level idea whose average score is at least
\* QUALITY_THRESHOLD, and the iteration was skipped
C18_Witness ==
    /\ last.op = "main"
    /\ last.picked # None
    /\ last.picked # RootId
    /\ last.picked = last.sel
    /\ nodes[last.picked].visits = 1
    /\ nodes[last.picked].score >= QUALITY_THRESHOLD
    /\ last.node = None
    /\ pc = "done"

\* C19: every iteration of the main loop is counted and leads to the next
\* one, or to the end of the run after the last: the run is never aborted.
C19_Original ==
    [][pc = "main" =>
          /\ i' = i + 1
          /\ pc' = IF i + 1 < Iterations THEN "main" ELSE "done"]_vars

\* the UCB1 weight of a visited child with exploration constant c, in
\* millionths
Ucb1With(c, parent, child) ==
    (child.score * 10000) \div child.visits
        + c * Sqrt((2 * LnMicro[parent.visits]) \div child.visits)

\* the visited child of n of largest weight with constant c, the first in
\* the order of the children among equals
PolicyChoice(tree, n, c) ==
    CHOOSE b \in VisitedChildren(tree, n) :
        \A d \in VisitedChildren(tree, n) :
            \/ Ucb1With(c, tree[n], tree[d]) < Ucb1With(c, tree[n], tree[b])
            \/ /\ Ucb1With(c, tree[n], tree[d]) = Ucb1With(c, tree[n], tree[b])
               /\ PositionOf(tree, n, b) <= PositionOf(tree, n, d)

\* C20: at a fully expanded node that is not terminal, _select returns a
\* child, and the child its call of best_child yields is the one of largest
\* UCB1 weight computed with the c_param of the run.
C20_Original ==
    (last.op = "select" /\ FullyExpanded(Root) /\ ~IsTerminal(Root)
        /\ VisitedChildren(nodes, RootId) # {}) =>
        /\ last.sel \in ChildrenOf(nodes, RootId)
        /\ BestChildWithCParam(nodes, RootId, c_param)
              = {PolicyChoice(nodes, RootId, c_param)}

\* C21: when the main loop begins after the bootstrap loop, every child of
\* the root has been simulated and backpropagated: it has at least one
\* visit.
C21_Original ==
    (pc = "main" /\ i = 0 /\ last.op = "bootstrap") =>
        \A c \in ChildrenOf(nodes, RootId) : nodes[c].visits >= 1

\* a is the beginning of b
IsPrefix(a, b) == Len(a) <= Len(b) /\ SubSeq(b, 1, Len(a)) = a

\* C22: an iteration of the bootstrap or main loop keeps every node, with
\* its id, parent, content, directive, depth and child_number; no node's
\* visits or score decreases; and each node's children are the children it
\* had, in the same order, with at most new ones appended.
C22_RunMonotone ==
    [][(pc \in {"bootstrap", "main"}) =>
          (\A n \in DOMAIN nodes :
              /\ n \in DOMAIN nodes'
              /\ nodes'[n].id = nodes[n].id
              /\ nodes'[n].parent = nodes[n].parent
              /\ nodes'[n].parent_id = nodes[n].parent_id
              /\ nodes'[n].content = nodes[n].content
              /\ nodes'[n].directive = nodes[n].directive
              /\ nodes'[n].depth = nodes[n].depth
              /\ nodes'[n].child_number = nodes[n].child_number
              /\ nodes'[n].visits >= nodes[n].visits
              /\ nodes'[n].score >= nodes[n].score
              /\ IsPrefix(nodes[n].children, nodes'[n].children))]_vars

\* the main loop appended a third child to the root after two successful
\* bootstrap iterations, and every iteration added its score to the root
C22_Witness ==
    /\ last.op = "main"
    /\ last.eval = "ok"
    /\ last.node = RootId
    /\ Len(Root.children) = MAX_CHILDREN + 1
    /\ Root.visits = MAX_CHILDREN + 1
    /\ Root.score > nodes[last.ret].score
    /\ nodes[last.ret].child_number = MAX_CHILDREN + 1

\* C23: get_best_ideas(root, n) returns min(n, number of ideas) different
\* nodes, none of them the root, in the order of decreasing score / visits
\* (0 without visits), and no idea left out has a larger score / visits
\* than a returned one.
C23_BestIdeas ==
    last.op = "best_ideas" =>
        LET r == last.ideas
            ideas == Ids \ {RootId}
            returned == { r[k] : k \in 1..Len(r) }
        IN  /\ Len(r) = IF last.n < Cardinality(ideas) THEN last.n
                        ELSE Cardinality(ideas)
            /\ returned \subseteq ideas
            /\ Cardinality(returned) = Len(r)
            /\ \A j, k \in 1..Len(r) :
                  j < k => ~KeyLess(nodes[r[j]], nodes[r[k]])
            /\ \A m \in ideas \ returned : \A k \in 1..Len(r) :
                  ~KeyLess(nodes[r[k]], nodes[m])

\* the two best of four ideas were asked for, and the best of them is a
\* third-level idea
C23_Witness ==
    /\ last.op = "best_ideas"
    /\ last.n = 2
    /\ Cardinality(Ids) = 5
    /\ Len(last.ideas) = 2
    /\ nodes[last.ideas[1]].depth = 3
    /\ KeyLess(nodes[last.ideas[2]], nodes[last.ideas[1]])

\* C24: a complete evaluation is worth the mean over the criteria of the
\* number given to each, divided by 100, and lies between 0 and 1.
C24_Original ==
    (last.op = "evaluate" /\ last.eval = "ok") =>
        /\ last.score * NumCriteria = SumSeq(last.env.response)
        /\ 0 <= last.score
        /\ last.score <= 100

\* the rounds in which a helper's call succeeded
Succeeded(outcomes, good) == { k \in DOMAIN outcomes : outcomes[k] = good }

\* the smallest number of a set of rounds
FirstOf(S) == CHOOSE k \in S : \A j \in S : k <= j

\* C28: a generation makes at most GEN_MAX_RETRIES completion calls and an
\* evaluation at most EVAL_MAX_RETRIES; the calls stop with the first
\* success, whose result is returned, and when every attempt failed the
\* generation returns False and the evaluation DEFAULT_SCORE.
C28_BoundedRetries ==
    /\ last.op = "generate" =>
          LET ok == Succeeded(last.env.completions, "text")
          IN  /\ last.calls >= 1 /\ last.calls <= GEN_MAX_RETRIES
              /\ ok # {} => (last.calls = FirstOf(ok) /\ last.idea = "idea")
              /\ ok = {} => (last.calls = GEN_MAX_RETRIES
                               /\ last.idea = FalseContent)
    /\ last.op = "evaluate" =>
          LET ok == Succeeded(last.env.attempts, "complete")
          IN  /\ last.calls >= 1 /\ last.calls <= EVAL_MAX_RETRIES
              /\ ok # {} => (last.calls = FirstOf(ok) /\ last.eval = "ok"
                               /\ last.score = AverageScore(last.env.response))
              /\ ok = {} => (last.calls = EVAL_MAX_RETRIES
                               /\ last.eval = "failed"
                               /\ last.score = DEFAULT_SCORE)

\* the first completion of a generation raised and the second gave the idea
C28_Witness ==
    /\ last.op = "generate"
    /\ last.env.completions = <<"raise", "text">>
    /\ last.calls = 2
    /\ last.idea = "idea"

\* C25: the program started with a snapshot file and the "continue"
\* argument runs the controller on the loaded tree.
C25_Original == (last.op = "load" /\ last.cont) => last.run

\* C26: the node _select returns is terminal or not fully expanded.
C26_Original ==
    (last.op = "select" /\ last.sel # Raised) =>
        \/ IsTerminal(nodes[last.sel])
        \/ ~FullyExpanded(nodes[last.sel])

\* C27: run() enters the bootstrap loop exactly when the root has no
\* children at its start; the bootstrap loop therefore only ever works on
\* a root whose children it made itself, at most one per round, and a run
\* started on a root with children goes straight to the main loop.
C27_BootstrapOnlyOnBareRoot ==
    /\ last.op = "start" =>
          ((pc = "bootstrap") <=> (Root.children = <<>>))
    /\ pc = "bootstrap" => Len(Root.children) <= i
    /\ last.op = "bootstrap" =>
          Len(Root.children) <= (IF pc = "bootstrap" THEN i ELSE MAX_CHILDREN)

\* a run started on a root with fewer than MAX_CHILDREN children: its main
\* loop expanded the root, which no bootstrap round had filled
C27_Witness ==
    /\ last.op = "main"
    /\ last.node = RootId
    /\ ~last.full
    /\ Root.children # <<>>
    /\ last.child # None
    /\ last.ret # None

\* deep enough or good enough, written out on the fields of the node
DeepOrGood(node) ==
    \/ node.depth >= MAX_DEPTH
    \/ /\ node.visits > 0
       /\ node.score >= QUALITY_THRESHOLD * node.visits

\* the nodes a step gave a new child
Expanded == { p \in DOMAIN nodes : p \in DOMAIN nodes'
                /\ Len(nodes'[p].children) > Len(nodes[p].children) }

\* C29 as stated: no node is deeper than MAX_DEPTH, and no iteration of a
\* run gives a child to a node that is deep enough or good enough.
C29_Original ==
    [][(pc \in {"bootstrap", "main"}) =>
          (/\ \A n \in DOMAIN nodes' : nodes'[n].depth <= MAX_DEPTH
           /\ \A p \in Expanded : ~DeepOrGood(nodes[p]))]_vars

\* C29, amended: no node is deeper than MAX_DEPTH; every node given a child
\* lies above MAX_DEPTH; the main loop never gives a child to a node that is
\* deep enough or good enough, and a bootstrap round, which makes no such
\* test, gives one to the root alone.
C29_NoExpansionAtMaxDepth ==
    [][(pc \in {"bootstrap", "main"}) =>
          (/\ \A n \in DOMAIN nodes' : nodes'[n].depth <= MAX_DEPTH
           /\ \A p \in Expanded :
                 /\ nodes[p].depth < MAX_DEPTH
                 /\ pc = "main" => ~DeepOrGood(nodes[p])
                 /\ pc = "bootstrap" => p = RootId)]_vars

\* the main loop expanded a first-level idea that was not good enough while
\* another idea of the root was: the new node lies at depth 2
C29_Witness ==
    /\ last.op = "main"
    /\ last.node # None
    /\ last.node # RootId
    /\ last.child \in DOMAIN nodes
    /\ nodes[last.child].depth = 2
    /\ \E s \in ChildrenOf(nodes, RootId) :
          s # last.node /\ DeepOrGood(nodes[s])

\* the nodes of the subtree of n are the same nodes after the step
SubtreeUnchanged(n) ==
    \A m \in Reachable(nodes, n) : m \in DOMAIN nodes' /\ nodes'[m] = nodes[m]

\* C30 as stated: in every iteration of a run, a node that is deep enough
\* or good enough keeps its visits, its score and its whole subtree.
C30_Original ==
    [][(pc \in {"bootstrap", "main"}) =>
          (\A n \in DOMAIN nodes :
              DeepOrGood(nodes[n]) => SubtreeUnchanged(n))]_vars

\* C30, amended: in every iteration of the main loop, a node that is deep
\* enough or good enough keeps its visits, its score and its whole subtree,
\* and when the root is such a node the iteration leaves the tree, the
\* identifiers and the snapshot unchanged.
C30_TerminalAbsorbingInMainLoop ==
    [][(pc = "main") =>
          (/\ \A n \in DOMAIN nodes :
                 DeepOrGood(nodes[n]) => SubtreeUnchanged(n)
           /\ DeepOrGood(nodes[RootId]) =>
                 (nodes' = nodes /\ nextId' = nextId /\ file' = file))]_vars

\* the average of the root had reached QUALITY_THRESHOLD: the iteration of
\* the main loop took the root and changed nothing
C30_Witness ==
    /\ last.op = "main"
    /\ last.picked = RootId
    /\ last.sel = RootId
    /\ last.node = None
    /\ Root.visits = MAX_CHILDREN
    /\ Root.score >= QUALITY_THRESHOLD * Root.visits
    /\ pc = "done"

\* the visits of the nodes of a sequence, added up
RECURSIVE SumVisits(_, _)
SumVisits(tree, seq) ==
    IF seq = <<>> THEN 0
    ELSE tree[Head(seq)].visits + SumVisits(tree, Tail(seq))

\* every node that was ever created is in the tree: nothing was pruned
NothingPruned == DOMAIN nodes = 1..(nextId - 1)

\* C31: as long as nothing was pruned, every idea has one visit more than
\* its children together, and the root has as many visits as its children
\* together, which is the number of ideas in the tree.
C31_Original ==
    NothingPruned =>
        /\ \A n \in Ids \ {RootId} :
              nodes[n].visits = 1 + SumVisits(nodes, nodes[n].children)
        /\ Root.visits = SumVisits(nodes, Root.children)
        /\ Root.visits = Cardinality(Ids \ {RootId})

\* C32 as stated: the children of a node have pairwise distinct
\* child_number values in every state.
C32_Original ==
    \A p \in Ids : \A c, d \in ChildrenOf(nodes, p) :
        c # d => nodes[c].child_number # nodes[d].child_number

\* C32, amended: the child_number of a node is never smaller than its
\* position among its siblings, and as long as nothing was pruned it is
\* that position, so that the children of a node have pairwise distinct
\* child_number values; after a prune a new child can repeat the
\* child_number of a sibling.
C32_NumberedByPosition ==
    /\ \A p \in Ids : \A k \in 1..Len(nodes[p].children) :
          nodes[nodes[p].children[k]].child_number >= k
    /\ NothingPruned =>
          /\ \A p \in Ids : \A k \in 1..Len(nodes[p].children) :
                nodes[nodes[p].children[k]].child_number = k
          /\ \A p \in Ids : \A c, d \in ChildrenOf(nodes, p) :
                c # d => nodes[c].child_number # nodes[d].child_number

\* nothing was pruned and the main loop gave the root a child beyond
\* MAX_CHILDREN: the children are numbered 1, 2, ... in their order
C32_Witness ==
    /\ NothingPruned
    /\ last.op = "main"
    /\ last.child \in DOMAIN nodes
    /\ Len(Root.children) = MAX_CHILDREN + 1
    /\ nodes[last.child].child_number = MAX_CHILDREN + 1
    /\ \A k \in 1..MAX_CHILDREN : nodes[Root.children[k]].child_number = k

\* the nodes _backpropagate updates when started at n: n and the nodes its
\* parent links lead to
RECURSIVE ParentChain(_, _)
ParentChain(tree, n) ==
    IF n = None THEN {}
    ELSE {n} \cup ParentChain(tree, tree[n].parent)

\* C33: every child listed by a node of the tree is a node of the tree
\* whose parent is that node and whose parent_id is that node's id, the root
\* has no parent, and the parent links of any node lead through exactly the
\* nodes whose subtree holds it, the root among them; also after a load.
C33_ParentLinks ==
    /\ Root.parent = None
    /\ Root.parent_id = None
    /\ \A p \in Ids : \A k \in 1..Len(nodes[p].children) :
          LET c == nodes[p].children[k]
          IN  /\ c \in Ids
              /\ nodes[c].id = c
              /\ nodes[c].parent = p
              /\ nodes[c].parent_id = nodes[p].id
    /\ \A n \in Ids :
          /\ ParentChain(nodes, n) = { m \in Ids : AncestorOrSelf(nodes, m, n) }
          /\ RootId \in ParentChain(nodes, n)

\* a tree with an idea at depth 2 was loaded from its snapshot: the parent
\* links of the idea lead to a first-level idea and then to the root
C33_Witness ==
    /\ last.op = "load"
    /\ \E n \in Ids :
          /\ nodes[n].depth = 2
          /\ nodes[n].parent \in ChildrenOf(nodes, RootId)
          /\ ParentChain(nodes, n) = {n, nodes[n].parent, RootId}

====
